---- MODULE Spec2Model ----
(***************************************************************************)
(* A model of the palette image codec (src/src/main.rs, src/src/utils.rs): *)
(* the median-cut quantizer, the packed container, the spawn/join pixel    *)
(* pipeline of do_encode and do_decode, and the two transform hooks.       *)
(*                                                                         *)
(* Colours are triples <<r, g, b>> of 0..255.  Rust indices are 0-based;   *)
(* operators that take or return an index keep the code's 0-based value    *)
(* and add 1 where they touch a TLA+ sequence.                             *)
(***************************************************************************)
EXTENDS Integers, Sequences, FiniteSets, Bags, TLC

VARIABLES
    img,            \* do_encode: the input ImageBuffer [width, height, px]
    palette_size,   \* do_encode: requested palette size (args[4])
    key_opt,        \* Option<String>: 0 is None, k > 0 is Some(key k)
    compress,       \* the "z" flag
    cpus_enc,       \* num_cpus::get() of the encoding run
    cpus_dec,       \* num_cpus::get() of the decoding run
    build,          \* "debug" (overflow checks on) or "release" (wrapping)
    pc,             \* position of the main thread
    pixels,         \* gen_palette: its pixel argument
    buckets,        \* gen_palette: the Vec<Bucket>
    palette,        \* do_encode: the generated palette
    data,           \* do_encode: the dithered pixels
    handles,        \* do_encode: the spawned workers, in spawn order
    result,         \* do_encode: the reassembled index stream
    output_bytes,   \* do_encode: the uncompressed container
    encoded,        \* the bytes handed from do_encode to do_decode (the file)
    d_bytes,        \* do_decode: bytes after the optional decompression
    d_palette,      \* do_decode: the parsed palette
    d_data,         \* do_decode: the index region
    d_handles,      \* do_decode: the spawned workers, in spawn order
    d_result,       \* do_decode: the reassembled RGB bytes
    decoded,        \* do_decode: the returned image, or the way it failed
    current_step,   \* ProgressBar.current_step (behind the mutex)
    bk,             \* Bucket statistics: a bucket given as runs <<pixel, count>>
    stat,           \* Bucket statistics: what average_color / variance gave
    ix              \* process_encode / process_decode applied to one chunk

vars == <<img, palette_size, key_opt, compress, cpus_enc, cpus_dec, build, pc,
          pixels, buckets, palette, data, handles, result, output_bytes,
          encoded, d_bytes, d_palette, d_data, d_handles, d_result, decoded,
          current_step, bk, stat, ix>>

---------------------------------------------------------------------------
(* Bounds of the model.                                                    *)

\* Longest pixel sequence handed to gen_palette on its own.
MaxPix == 4
\* Largest requested palette size for the small inputs.
MaxN == 4
\* Largest worker count of the encode -> decode pipeline.
MaxCpus == 3
\* Largest worker count of do_decode on its own.
MaxDecCpus == 4

---------------------------------------------------------------------------
(* Integer helpers.                                                        *)

Min2(a, b) == IF a <= b THEN a ELSE b
Max2(a, b) == IF a >= b THEN a ELSE b

\* Rust's integer division truncates toward zero.
TruncDiv(a, b) == IF a >= 0 THEN a \div b ELSE -((-a) \div b)

\* usize::div_ceil
div_ceil(a, b) == (a + b - 1) \div b

RECURSIVE BitOr(_, _)
BitOr(a, b) ==
    IF a = 0 THEN b
    ELSE IF b = 0 THEN a
    ELSE Max2(a % 2, b % 2) + 2 * BitOr(a \div 2, b \div 2)

RECURSIVE BitAnd(_, _)
BitAnd(a, b) ==
    IF a = 0 \/ b = 0 THEN 0
    ELSE (a % 2) * (b % 2) + 2 * BitAnd(a \div 2, b \div 2)

RECURSIVE Concat(_)
Concat(ss) == IF ss = <<>> THEN <<>> ELSE Head(ss) \o Concat(Tail(ss))

Take(s, k) == SubSeq(s, 1, Min2(k, Len(s)))
Drop(s, k) == SubSeq(s, k + 1, Len(s))

---------------------------------------------------------------------------
(* u32 accumulators.  A sum that may pass 2^32 is kept exactly as a pair   *)
(* <<hi, lo>> standing for hi * 2^16 + lo with 0 <= lo < 2^16, so that the *)
(* point where the code's u32 overflows is visible: the value fits a u32   *)
(* iff hi < 2^16.                                                          *)

B16 == 2 ^ 16

\* count * v for count < 2^25 and v < 2^18, exactly.
WideMul(count, v) ==
    LET c0 == count % 8192
        c1 == count \div 8192
        a  == c1 * v
        b  == c0 * v
        t  == (a % 8) * 8192 + (b % B16)
    IN  <<(a \div 8) + (b \div B16) + (t \div B16), t % B16>>

WideAdd(x, y) ==
    LET t == x[2] + y[2]
    IN  <<x[1] + y[1] + (t \div B16), t % B16>>

\* The exact value does not fit a u32.
Overflows32(x) == x[1] >= B16

\* What a wrapping u32 addition leaves: the value modulo 2^32.
Wrap32(x) == <<x[1] % B16, x[2]>>

RECURSIVE DivBits(_, _, _, _, _)
DivBits(r, q, lo, k, d) ==
    IF k < 0 THEN q
    ELSE LET bit == (lo \div (2 ^ k)) % 2
             r2  == 2 * r + bit
         IN  IF r2 >= d THEN DivBits(r2 - d, 2 * q + 1, lo, k - 1, d)
             ELSE DivBits(r2, 2 * q, lo, k - 1, d)

\* u32 / u32 (truncating) of a value that fits a u32, for a divisor < 2^25.
DivU32(x, d) == DivBits(x[1] % d, x[1] \div d, x[2], 15, d)

---------------------------------------------------------------------------
(* Bucket (utils.rs).  Bucket.pixels is modelled two ways that the         *)
(* statistics treat alike: the quantizer keeps it as the sequence of its   *)
(* pixels, and the statistics read it as runs <<pixel, count>> (count      *)
(* copies of pixel), which is how a bucket of millions of pixels is given. *)

RECURSIVE Runs(_)
Runs(px) == IF px = <<>> THEN <<>> ELSE <<<<Head(px), 1>>>> \o Runs(Tail(px))

RECURSIVE RunsLen(_)
RunsLen(runs) == IF runs = <<>> THEN 0 ELSE Head(runs)[2] + RunsLen(Tail(runs))

\* The fold of average_color for one channel: the exact sum.
RECURSIVE ChannelSum(_, _)
ChannelSum(runs, ch) ==
    IF runs = <<>> THEN <<0, 0>>
    ELSE WideAdd(WideMul(Head(runs)[2], Head(runs)[1][ch + 1]),
                 ChannelSum(Tail(runs), ch))

\* Some u32 accumulator of average_color passes 2^32 - 1.
average_color_overflows(runs) ==
    \E ch \in 0..2 : Overflows32(ChannelSum(runs, ch))

\* Bucket::average_color on a non-empty bucket, with wrapping accumulators.
average_color(runs) ==
    LET len == RunsLen(runs)
    IN  << DivU32(Wrap32(ChannelSum(runs, 0)), len) % 256,
           DivU32(Wrap32(ChannelSum(runs, 1)), len) % 256,
           DivU32(Wrap32(ChannelSum(runs, 2)), len) % 256 >>

\* (dr*dr + dg*dg + db*db) as u32 for one pixel.
SqDev(p, avg) ==
    (p[1] - avg[1]) * (p[1] - avg[1]) + (p[2] - avg[2]) * (p[2] - avg[2])
        + (p[3] - avg[3]) * (p[3] - avg[3])

\* The .sum::<u32>() of variance: the exact sum.
RECURSIVE SqDevSum(_, _)
SqDevSum(runs, avg) ==
    IF runs = <<>> THEN <<0, 0>>
    ELSE WideAdd(WideMul(Head(runs)[2], SqDev(Head(runs)[1], avg)),
                 SqDevSum(Tail(runs), avg))

\* The u32 accumulator of variance passes 2^32 - 1.
variance_overflows(runs) ==
    RunsLen(runs) # 0 /\ Overflows32(SqDevSum(runs, average_color(runs)))

\* Bucket::variance, with wrapping accumulators.
variance(runs) ==
    LET len == RunsLen(runs)
    IN  IF len = 0 THEN 0
        ELSE DivU32(Wrap32(SqDevSum(runs, average_color(runs))), len)

\* min and max of one channel (itertools minmax).
ChannelMin(px, ch) ==
    CHOOSE m \in {px[i][ch + 1] : i \in 1..Len(px)} :
        \A i \in 1..Len(px) : m <= px[i][ch + 1]
ChannelMax(px, ch) ==
    CHOOSE m \in {px[i][ch + 1] : i \in 1..Len(px)} :
        \A i \in 1..Len(px) : m >= px[i][ch + 1]

\* Bucket::largest_range_channel on a non-empty bucket.
largest_range_channel(px) ==
    LET range_r == ChannelMax(px, 0) - ChannelMin(px, 0)
        range_g == ChannelMax(px, 1) - ChannelMin(px, 1)
        range_b == ChannelMax(px, 2) - ChannelMin(px, 2)
    IN  IF range_r >= range_g /\ range_r >= range_b THEN 0
        ELSE IF range_g >= range_r /\ range_g >= range_b THEN 1
        ELSE 2

\* sort_unstable_by_key: every ordering of px that is sorted by channel ch
\* (the order of pixels with equal keys is unspecified).
SortedByKey(px, ch) ==
    { [i \in 1..Len(px) |-> px[f[i]]] : f \in
        { g \in Permutations(1..Len(px)) :
            \A i \in 1..(Len(px) - 1) : px[g[i]][ch + 1] <= px[g[i + 1]][ch + 1] } }

\* A plausible slip: the midpoint rounded the other way around a length of 2.
split_mid_low(len) == (len - 1) \div 2

\* let mid = pixels.len() / 2
split_mid(len) == len \div 2

\* Bucket::split: the pairs <<lower, upper>> it can return.
split(px) ==
    LET ch  == largest_range_channel(px)
        mid == split_mid(Len(px))
    IN  { <<SubSeq(s, 1, mid), SubSeq(s, mid + 1, Len(s))>> : s \in SortedByKey(px, ch) }

---------------------------------------------------------------------------
(* gen_palette (utils.rs).                                                 *)

\* The key of every bucket, in order.
RECURSIVE Variances(_)
Variances(bs) ==
    IF bs = <<>> THEN <<>>
    ELSE <<variance(Runs(Head(bs)))>> \o Variances(Tail(bs))

\* max_by_key(|b| b.variance()): the 0-based index of the last maximum.
max_variance_idx(bs) ==
    LET v == Variances(bs)
    IN  (CHOOSE i \in 1..Len(bs) :
            \A j \in 1..Len(bs) : v[j] <= v[i] /\ (j > i => v[j] < v[i])) - 1

\* Vec::swap_remove(idx): the vector that is left.
swap_remove(v, idx) ==
    [i \in 1..(Len(v) - 1) |-> IF i = idx + 1 THEN v[Len(v)] ELSE v[i]]

\* One pass of the while loop that splits the selected bucket.
GenSplit ==
    /\ pc = "gen_palette"
    /\ Len(buckets) < palette_size
    /\ LET idx    == max_variance_idx(buckets)
           bucket == buckets[idx + 1]
       IN  /\ Len(bucket) > 1
           /\ \E halves \in split(bucket) :
                buckets' = swap_remove(buckets, idx) \o <<halves[1], halves[2]>>
    /\ UNCHANGED <<img, palette_size, key_opt, compress, cpus_enc, cpus_dec, build,
                   pc, pixels, palette, data, handles, result, output_bytes,
                   encoded, d_bytes, d_palette, d_data, d_handles, d_result,
                   decoded, current_step, bk, stat, ix>>

\* The pass that finds the selected bucket with at most one pixel: push it
\* back and break.
GenBreak ==
    /\ pc = "gen_palette"
    /\ Len(buckets) < palette_size
    /\ LET idx    == max_variance_idx(buckets)
           bucket == buckets[idx + 1]
       IN  /\ Len(bucket) <= 1
           /\ buckets' = Append(swap_remove(buckets, idx), bucket)
    /\ pc' = "gen_collect"
    /\ UNCHANGED <<img, palette_size, key_opt, compress, cpus_enc, cpus_dec, build,
                   pixels, palette, data, handles, result, output_bytes,
                   encoded, d_bytes, d_palette, d_data, d_handles, d_result,
                   decoded, current_step, bk, stat, ix>>

\* The loop is over (len >= n, or break): one average colour per bucket.
GenReturn ==
    /\ \/ pc = "gen_collect"
       \/ pc = "gen_palette" /\ Len(buckets) >= palette_size
    /\ IF \E i \in 1..Len(buckets) : buckets[i] = <<>>
       THEN \* average_color divides by a length of zero
            /\ pc' = "panic"
            /\ UNCHANGED palette
       ELSE /\ palette' = [i \in 1..Len(buckets) |-> average_color(Runs(buckets[i]))]
            /\ pc' = "dither"
    /\ UNCHANGED <<img, palette_size, key_opt, compress, cpus_enc, cpus_dec, build,
                   pixels, buckets, data, handles, result, output_bytes,
                   encoded, d_bytes, d_palette, d_data, d_handles, d_result,
                   decoded, current_step, bk, stat, ix>>

---------------------------------------------------------------------------
(* Nearest-colour mapper and dithering.                                    *)

SqDist(a, b) ==
    (a[1] - b[1]) * (a[1] - b[1]) + (a[2] - b[2]) * (a[2] - b[2])
        + (a[3] - b[3]) * (a[3] - b[3])

\* Palette::index_of: min_by_key gives the first minimum, unwrap_or(0) on
\* an empty palette.
index_of(colors, color) ==
    IF colors = <<>> THEN 0
    ELSE (CHOOSE i \in 1..Len(colors) :
            \A j \in 1..Len(colors) :
                /\ SqDist(colors[i], color) <= SqDist(colors[j], color)
                /\ j < i => SqDist(colors[j], color) > SqDist(colors[i], color)) - 1

\* Palette::map_color
map_color(colors, color) == colors[index_of(colors, color) + 1]

\* image::imageops::dither's diffuse_err: add error * factor / 16 to every
\* channel (i16 arithmetic, division toward zero), clamped to 0..255.
diffuse_err(pixel, error, factor) ==
    << Max2(0, Min2(255, pixel[1] + TruncDiv(error[1] * factor, 16))),
       Max2(0, Min2(255, pixel[2] + TruncDiv(error[2] * factor, 16))),
       Max2(0, Min2(255, pixel[3] + TruncDiv(error[3] * factor, 16))) >>

\* The Floyd-Steinberg pass of image::imageops::dither from pixel k on, in
\* raster order: pixel (x, y) is replaced by its palette colour and the error
\* goes to (x+1, y) * 7, (x-1, y+1) * 3, (x, y+1) * 5 and (x+1, y+1) * 1,
\* where those pixels exist.
RECURSIVE DitherFrom(_, _, _, _, _)
DitherFrom(px, k, w, h, colors) ==
    IF k >= w * h THEN px
    ELSE LET x   == k % w
             y   == k \div w
             old == px[k + 1]
             new == map_color(colors, old)
             err == <<old[1] - new[1], old[2] - new[2], old[3] - new[3]>>
             nxt == [i \in 1..Len(px) |->
                      IF i = k + 1 THEN new
                      ELSE IF i = k + 2 /\ x + 1 < w
                          THEN diffuse_err(px[i], err, 7)
                      ELSE IF i = k + w /\ x >= 1 /\ y + 1 < h
                          THEN diffuse_err(px[i], err, 3)
                      ELSE IF i = k + w + 1 /\ y + 1 < h
                          THEN diffuse_err(px[i], err, 5)
                      ELSE IF i = k + w + 2 /\ x + 1 < w /\ y + 1 < h
                          THEN diffuse_err(px[i], err, 1)
                      ELSE px[i]]
         IN  DitherFrom(SubSeq(nxt, 1, Len(px)), k + 1, w, h, colors)

\* dither(&mut img, &Palette { colors }): the pixels it leaves in img.
dither(image, colors) == DitherFrom(image.px, 0, image.width, image.height, colors)

---------------------------------------------------------------------------
(* Transform hooks.  Both are library calls (cosmian_fpe FF1, zstd); they  *)
(* are modelled by concrete invertible transforms with the properties the  *)
(* codec relies on, so that a round trip is computed, not assumed.         *)

\* FF1 as a keyed, length-preserving bijection on byte strings that mixes
\* every byte with the ones before it: c[i] = p[i] + key + c[i-1] mod 256.
RECURSIVE EncryptFrom(_, _, _)
EncryptFrom(bytes, key, prev) ==
    IF bytes = <<>> THEN <<>>
    ELSE LET c == (Head(bytes) + key + prev) % 256
         IN  <<c>> \o EncryptFrom(Tail(bytes), key, c)

\* encrypt(&mut bytes, key) with a valid key: the bytes it leaves.
encrypt(bytes, key) == EncryptFrom(bytes, key, 0)

RECURSIVE DecryptFrom(_, _, _)
DecryptFrom(cipher, key, prev) ==
    IF cipher = <<>> THEN <<>>
    ELSE <<(Head(cipher) - key - prev) % 256>>
            \o DecryptFrom(Tail(cipher), key, Head(cipher))

\* decrypt(&mut cipher, key) with a valid key: the bytes it leaves.
decrypt(cipher, key) == DecryptFrom(cipher, key, 0)

\* The zstd frame magic number 0xFD2FB528, little-endian.
ZMagic == <<40, 181, 47, 253>>

\* Length of the run of equal bytes at the head of s (at most 255).
RECURSIVE HeadRun(_, _)
HeadRun(s, b) ==
    IF s = <<>> \/ Head(s) # b THEN 0
    ELSE LET r == HeadRun(Tail(s), b) IN IF r >= 254 THEN 255 ELSE 1 + r

RECURSIVE RunLengthEncode(_)
RunLengthEncode(s) ==
    IF s = <<>> THEN <<>>
    ELSE LET r == HeadRun(s, Head(s))
         IN  <<r, Head(s)>> \o RunLengthEncode(Drop(s, r))

RECURSIVE Repeat(_, _)
Repeat(b, k) == IF k <= 0 THEN <<>> ELSE <<b>> \o Repeat(b, k - 1)

RECURSIVE RunLengthDecode(_)
RunLengthDecode(s) ==
    IF s = <<>> THEN <<>>
    ELSE Repeat(s[2], s[1]) \o RunLengthDecode(Drop(s, 2))

\* zstd::encode_all: a frame is the magic number and the compressed payload
\* (here a run-length coding: shorter for repetitive input, longer otherwise).
zstd_encode_all(bytes) == ZMagic \o RunLengthEncode(bytes)

\* zstd::decode_all: Ok(empty) on empty input, Err on anything that is not
\* a well-formed frame.
zstd_decode_all(bytes) ==
    IF bytes = <<>> THEN [ok |-> TRUE, bytes |-> <<>>]
    ELSE IF Len(bytes) >= 4 /\ Take(bytes, 4) = ZMagic /\ (Len(bytes) - 4) % 2 = 0
              /\ \A i \in 1..((Len(bytes) - 4) \div 2) : bytes[4 + 2 * i - 1] >= 1
        THEN [ok |-> TRUE, bytes |-> RunLengthDecode(Drop(bytes, 4))]
    ELSE [ok |-> FALSE, bytes |-> <<>>]

---------------------------------------------------------------------------
(* Packed container (utils.rs).                                            *)

\* pack_dimensions(width: u16, height: u16) -> [u8; 3]
pack_dimensions(width, height) ==
    LET combined == BitOr(width * 4096, height)
    IN  << BitAnd(combined \div 65536, 255),
           BitAnd(combined \div 256, 255),
           BitAnd(combined, 255) >>

\* unpack_dimensions(bytes) -> (u32, u32)
unpack_dimensions(bytes) ==
    LET combined == BitOr(BitOr(bytes[1] * 65536, bytes[2] * 256), bytes[3])
    IN  << BitAnd((combined \div 4096) % 65536, 4095),
           BitAnd(combined, 4095) % 65536 >>

\* palette.iter().flat_map(|rgb| rgb.0)
RECURSIVE palette_bytes(_)
palette_bytes(pal) ==
    IF pal = <<>> THEN <<>> ELSE Head(pal) \o palette_bytes(Tail(pal))

\* decode_palette(bytes): one colour per whole group of three bytes.
RECURSIVE decode_palette(_)
decode_palette(bytes) ==
    IF Len(bytes) < 3 THEN <<>>
    ELSE <<Take(bytes, 3)>> \o decode_palette(Drop(bytes, 3))

---------------------------------------------------------------------------
(* The workers' functions (main.rs).                                       *)

\* palette.iter().position(|&c| c == pixel).unwrap_or(0)
position_or_0(pal, pixel) ==
    IF \E i \in 1..Len(pal) : pal[i] = pixel
    THEN (CHOOSE i \in 1..Len(pal) :
            pal[i] = pixel /\ \A j \in 1..(i - 1) : pal[j] # pixel) - 1
    ELSE 0

\* closest_index as u8
index_byte(closest_index) == closest_index % 256

RECURSIVE index_chunk(_, _)
index_chunk(chunk, pal) ==
    IF chunk = <<>> THEN <<>>
    ELSE <<index_byte(position_or_0(pal, Head(chunk)))>> \o index_chunk(Tail(chunk), pal)

\* process_encode(chunk, palette, key_opt, _) with a valid key
process_encode(chunk, pal, key) ==
    IF key # 0 THEN encrypt(index_chunk(chunk, pal), key)
    ELSE index_chunk(chunk, pal)

\* palette.get(byte as usize).unwrap_or(&palette[0])
palette_get(pal, byte) == IF byte < Len(pal) THEN pal[byte + 1] ELSE pal[1]

RECURSIVE expand_chunk(_, _)
expand_chunk(chunk, pal) ==
    IF chunk = <<>> THEN <<>>
    ELSE palette_get(pal, Head(chunk)) \o expand_chunk(Tail(chunk), pal)

\* process_decode(chunk, palette, key_opt, _, _) with a valid key
process_decode(chunk, pal, key) ==
    IF key # 0 THEN expand_chunk(decrypt(chunk, key), pal)
    ELSE expand_chunk(chunk, pal)

\* const PROGRESS_BAR_WIDTH: usize = 50
PROGRESS_BAR_WIDTH == 50

\* ProgressBar::step, k times: current_step = (current_step + 1).min(last_step)
steps(cur, k, last_step) == Min2(cur + k, last_step)

\* ProgressBar::step_percent(1.0 / cpus_amount): (percent * 50.0) as usize steps
\* (exact for the worker counts modelled).
percent_steps(cpus_amount) == PROGRESS_BAR_WIDTH \div cpus_amount

\* The chunk of worker i: data[start..end] is taken when start <= end.
chunk_start(i, bytes_per_thread) == i * bytes_per_thread
chunk_end(i, bytes_per_thread, len) == Min2((i + 1) * bytes_per_thread, len)

\* A worker that has just been spawned on its chunk.
Spawned(chunk) == [chunk |-> chunk, out |-> <<>>, st |-> "running"]

\* A plausible slip: take whichever worker has finished, not the next one.
next_handle_finished(hs) ==
    IF \E i \in 1..Len(hs) : hs[i].st = "finished"
    THEN (CHOOSE i \in 1..Len(hs) :
            hs[i].st = "finished"
            /\ \A j \in (i + 1)..Len(hs) : hs[j].st # "finished") - 1
    ELSE (CHOOSE i \in 1..Len(hs) :
            hs[i].st # "joined" /\ \A j \in 1..(i - 1) : hs[j].st = "joined") - 1

\* for handle in handles: the 0-based index of the handle joined next.
next_handle(hs) ==
    (CHOOSE i \in 1..Len(hs) :
        hs[i].st # "joined" /\ \A j \in 1..(i - 1) : hs[j].st = "joined") - 1

AllJoined(hs) == \A i \in 1..Len(hs) : hs[i].st = "joined"

\* result.extend(processed_chunk)
extend(res, processed_chunk) == res \o processed_chunk

---------------------------------------------------------------------------
(* do_encode (main.rs).  gen_palette's loop (above) runs between           *)
(* CheckDimensions and Dither.                                             *)

\* if !(2..=4097).contains(&width)
MaxDim == 4097

\* Collect the pixels, check the dimensions (exit(1) when out of range),
\* enter gen_palette with its first bucket.
CheckDimensions ==
    /\ pc = "do_encode"
    /\ pixels' = img.px
    /\ IF img.width \in 2..MaxDim /\ img.height \in 2..MaxDim
       THEN /\ buckets' = <<pixels'>>
            /\ pc' = "gen_palette"
       ELSE /\ pc' = "exit"
            /\ UNCHANGED buckets
    /\ UNCHANGED <<img, palette_size, key_opt, compress, cpus_enc, cpus_dec, build,
                   palette, data, handles, result, output_bytes,
                   encoded, d_bytes, d_palette, d_data, d_handles, d_result,
                   decoded, current_step, bk, stat, ix>>

\* dither the image in place, collect its pixels, create the progress bar.
Dither ==
    /\ pc = "dither"
    /\ data' = dither(img, palette)
    /\ current_step' = 0
    /\ pc' = "enc_spawn"
    /\ UNCHANGED <<img, palette_size, key_opt, compress, cpus_enc, cpus_dec, build,
                   pixels, buckets, palette, handles, result, output_bytes,
                   encoded, d_bytes, d_palette, d_data, d_handles, d_result,
                   decoded, bk, stat, ix>>

\* One pass of the spawn loop: slice worker i's chunk (a panic when the start
\* lies beyond the end) and spawn the worker.
EncSpawn ==
    /\ pc = "enc_spawn"
    /\ LET i     == Len(handles)
           bpt   == div_ceil(Len(data), cpus_enc)
           start == chunk_start(i, bpt)
           end   == chunk_end(i, bpt, Len(data))
       IN  IF start > end
           THEN /\ pc' = "enc_panic"
                /\ UNCHANGED handles
           ELSE /\ handles' = Append(handles, Spawned(SubSeq(data, start + 1, end)))
                /\ pc' = IF i + 1 = cpus_enc THEN "enc_join" ELSE "enc_spawn"
    /\ UNCHANGED <<img, palette_size, key_opt, compress, cpus_enc, cpus_dec, build,
                   pixels, buckets, palette, data, result, output_bytes,
                   encoded, d_bytes, d_palette, d_data, d_handles, d_result,
                   decoded, current_step, bk, stat, ix>>

\* Worker i runs process_encode on its chunk (one step per pixel and one for
\* the cipher on the shared progress bar).
EncWorker(i) ==
    /\ pc \in {"enc_spawn", "enc_join"}
    /\ i \in 1..Len(handles)
    /\ handles[i].st = "running"
    /\ handles' = [handles EXCEPT
                     ![i].out = process_encode(handles[i].chunk, palette, key_opt),
                     ![i].st  = "finished"]
    /\ current_step' = steps(current_step,
                             Len(handles[i].chunk) + (IF key_opt # 0 THEN 1 ELSE 0),
                             Len(data))
    /\ UNCHANGED <<img, palette_size, key_opt, compress, cpus_enc, cpus_dec, build,
                   pc, pixels, buckets, palette, data, result, output_bytes,
                   encoded, d_bytes, d_palette, d_data, d_handles, d_result,
                   decoded, bk, stat, ix>>

\* One pass of the join loop: wait for the next handle, append its output.
EncJoin ==
    /\ pc = "enc_join"
    /\ LET j == next_handle(handles) + 1
       IN  /\ handles[j].st = "finished"
           /\ result' = extend(result, handles[j].out)
           /\ handles' = [handles EXCEPT ![j].st = "joined"]
           /\ pc' = IF AllJoined(handles') THEN "enc_pack" ELSE "enc_join"
    /\ UNCHANGED <<img, palette_size, key_opt, compress, cpus_enc, cpus_dec, build,
                   pixels, buckets, palette, data, output_bytes,
                   encoded, d_bytes, d_palette, d_data, d_handles, d_result,
                   decoded, current_step, bk, stat, ix>>

\* The container do_encode assembles.
container(image, n, pal, res) ==
    pack_dimensions(image.width - 2, image.height - 2)
        \o <<(n - 2) % 256>> \o palette_bytes(pal) \o res

\* What do_encode returns for the container: with the flag, the compressed
\* bytes when they are shorter.
compress_or_store(out, z) ==
    IF z
    THEN LET compressed == zstd_encode_all(out)
         IN  IF Len(compressed) < Len(out) THEN compressed ELSE out
    ELSE out

\* Assemble the container, compress it when asked to, return.
EncPack ==
    /\ pc = "enc_pack"
    /\ output_bytes' = container(img, palette_size, palette, result)
    /\ encoded' = compress_or_store(output_bytes', compress)
    /\ pc' = "enc_done"
    /\ UNCHANGED <<img, palette_size, key_opt, compress, cpus_enc, cpus_dec, build,
                   pixels, buckets, palette, data, handles, result,
                   d_bytes, d_palette, d_data, d_handles, d_result,
                   decoded, current_step, bk, stat, ix>>

\* do_output writes the bytes; a later run's do_input reads them back.
ReadBack ==
    /\ pc = "enc_done"
    /\ pc' = "dec_open"
    /\ UNCHANGED <<img, palette_size, key_opt, compress, cpus_enc, cpus_dec, build,
                   pixels, buckets, palette, data, handles, result, output_bytes,
                   encoded, d_bytes, d_palette, d_data, d_handles, d_result,
                   decoded, current_step, bk, stat, ix>>

---------------------------------------------------------------------------
(* do_decode (main.rs).                                                    *)

Failed(how) == [outcome |-> how, width |-> 0, height |-> 0, px |-> <<>>]

\* Decompress when asked to, read the palette size, slice the palette and
\* the index region, create the progress bar.
DecOpen ==
    /\ pc = "dec_open"
    /\ LET z  == IF compress THEN zstd_decode_all(encoded)
                 ELSE [ok |-> TRUE, bytes |-> encoded]
           b  == z.bytes
           ps == b[4] + 2
       IN  IF ~z.ok
           THEN \* .expect("Decompression failed")
                /\ decoded' = Failed("decompression_failed")
                /\ pc' = "dec_panic"
                /\ UNCHANGED <<d_bytes, d_palette, d_data, current_step>>
           ELSE IF Len(b) < 4
           THEN \* bytes[3]
                /\ decoded' = Failed("index_out_of_bounds")
                /\ pc' = "dec_panic"
                /\ UNCHANGED <<d_bytes, d_palette, d_data, current_step>>
           ELSE IF Len(b) < ps * 3 + 4
           THEN \* &bytes[4..(palette_size * 3) + 4]
                /\ decoded' = Failed("range_end_out_of_range")
                /\ pc' = "dec_panic"
                /\ UNCHANGED <<d_bytes, d_palette, d_data, current_step>>
           ELSE /\ d_bytes' = b
                /\ d_palette' = decode_palette(SubSeq(b, 5, ps * 3 + 4))
                /\ d_data' = Drop(b, 4 + Len(d_palette') * 3)
                /\ current_step' = 0
                /\ pc' = "dec_spawn"
                /\ UNCHANGED decoded
    /\ UNCHANGED <<img, palette_size, key_opt, compress, cpus_enc, cpus_dec, build,
                   pixels, buckets, palette, data, handles, result, output_bytes,
                   encoded, d_handles, d_result, bk, stat, ix>>

\* One pass of the spawn loop of do_decode.
DecSpawn ==
    /\ pc = "dec_spawn"
    /\ LET i     == Len(d_handles)
           bpt   == div_ceil(Len(d_data), cpus_dec)
           start == chunk_start(i, bpt)
           end   == chunk_end(i, bpt, Len(d_data))
       IN  IF start > end
           THEN /\ pc' = "dec_panic"
                /\ decoded' = Failed("slice_index_order")
                /\ UNCHANGED d_handles
           ELSE /\ d_handles' = Append(d_handles, Spawned(SubSeq(d_data, start + 1, end)))
                /\ pc' = IF i + 1 = cpus_dec THEN "dec_join" ELSE "dec_spawn"
                /\ UNCHANGED decoded
    /\ UNCHANGED <<img, palette_size, key_opt, compress, cpus_enc, cpus_dec, build,
                   pixels, buckets, palette, data, handles, result, output_bytes,
                   encoded, d_bytes, d_palette, d_data, d_result,
                   current_step, bk, stat, ix>>

\* Worker i runs process_decode on its chunk.
DecWorker(i) ==
    /\ pc \in {"dec_spawn", "dec_join"}
    /\ i \in 1..Len(d_handles)
    /\ d_handles[i].st = "running"
    /\ d_handles' = [d_handles EXCEPT
                       ![i].out = process_decode(d_handles[i].chunk, d_palette, key_opt),
                       ![i].st  = "finished"]
    /\ current_step' = steps(current_step,
                             Len(d_handles[i].chunk)
                                + (IF key_opt # 0 THEN percent_steps(cpus_dec) ELSE 0),
                             Len(d_data))
    /\ UNCHANGED <<img, palette_size, key_opt, compress, cpus_enc, cpus_dec, build,
                   pc, pixels, buckets, palette, data, handles, result, output_bytes,
                   encoded, d_bytes, d_palette, d_data, d_result,
                   decoded, bk, stat, ix>>

\* One pass of the join loop of do_decode.
DecJoin ==
    /\ pc = "dec_join"
    /\ LET j == next_handle(d_handles) + 1
       IN  /\ d_handles[j].st = "finished"
           /\ d_result' = extend(d_result, d_handles[j].out)
           /\ d_handles' = [d_handles EXCEPT ![j].st = "joined"]
           /\ pc' = IF AllJoined(d_handles') THEN "dec_image" ELSE "dec_join"
    /\ UNCHANGED <<img, palette_size, key_opt, compress, cpus_enc, cpus_dec, build,
                   pixels, buckets, palette, data, handles, result, output_bytes,
                   encoded, d_bytes, d_palette, d_data,
                   decoded, current_step, bk, stat, ix>>

\* ImageBuffer::from_raw(width + 2, height + 2, result) with the dimensions
\* unpacked from the first three bytes: None when the buffer is too short,
\* and then the expect's "Not enough data" panic.
DecImage ==
    /\ pc = "dec_image"
    /\ LET dims   == unpack_dimensions(Take(d_bytes, 3))
           width  == dims[1] + 2
           height == dims[2] + 2
       IN  IF Len(d_result) >= width * height * 3
           THEN /\ decoded' = [outcome |-> "ok", width |-> width, height |-> height,
                               px |-> decode_palette(Take(d_result, width * height * 3))]
                /\ pc' = "dec_done"
           ELSE /\ decoded' = Failed("not_enough_data")
                /\ pc' = "dec_panic"
    /\ UNCHANGED <<img, palette_size, key_opt, compress, cpus_enc, cpus_dec, build,
                   pixels, buckets, palette, data, handles, result, output_bytes,
                   encoded, d_bytes, d_palette, d_data, d_handles, d_result,
                   current_step, bk, stat, ix>>

---------------------------------------------------------------------------
(* Values of the variables a specification does not use.                   *)

NoImage == [width |-> 0, height |-> 0, px |-> <<>>]
NotDecoded == [outcome |-> "none", width |-> 0, height |-> 0, px |-> <<>>]
NoStat  == [done |-> FALSE]
NoIx    == [pc |-> "idle"]

IdleInputs ==
    /\ img = NoImage
    /\ key_opt = 0
    /\ compress = FALSE
    /\ cpus_enc = 1
    /\ cpus_dec = 1

IdleEncode ==
    /\ palette = <<>>
    /\ data = <<>>
    /\ handles = <<>>
    /\ result = <<>>
    /\ output_bytes = <<>>
    /\ encoded = <<>>
    /\ current_step = 0

IdleDecode ==
    /\ d_bytes = <<>>
    /\ d_palette = <<>>
    /\ d_data = <<>>
    /\ d_handles = <<>>
    /\ d_result = <<>>
    /\ decoded = NotDecoded

IdleStats == bk = <<>> /\ stat = NoStat
IdleIndex == ix = NoIx

---------------------------------------------------------------------------
(* gen_palette on its own: every pixel sequence of 1..MaxPix pixels over a *)
(* few colours, every requested size 1..MaxN.                              *)

QColors == { <<0, 0, 0>>, <<255, 255, 255>>, <<200, 0, 100>> }

SeqsUpTo(S, k) == UNION { [1..m -> S] : m \in 1..k }

InitQuant ==
    /\ pixels \in SeqsUpTo(QColors, MaxPix)
    /\ palette_size \in 1..MaxN
    /\ buckets = <<pixels>>
    /\ pc = "gen_palette"
    /\ build = "release"
    /\ IdleInputs /\ IdleEncode /\ IdleDecode /\ IdleStats /\ IdleIndex

NextQuant == GenSplit \/ GenBreak \/ GenReturn

SpecQuant == InitQuant /\ [][NextQuant]_vars

CountIn(s, c) == Cardinality({ i \in 1..Len(s) : s[i] = c })

\* The buckets hold exactly the pixels gen_palette was given.
SameMultiset(bs, px) ==
    /\ Len(Concat(bs)) = Len(px)
    /\ \A i \in 1..Len(px) : CountIn(Concat(bs), px[i]) = CountIn(px, px[i])

InQuantizer == pc \in {"gen_palette", "gen_collect", "dither"}

C10_State ==
    InQuantizer =>
        /\ \A i \in 1..Len(buckets) : buckets[i] # <<>>
        /\ SameMultiset(buckets, pixels)
        /\ 1 <= Len(buckets) /\ Len(buckets) <= palette_size
        /\ pc = "dither" => Len(palette) = Len(buckets)

C10_Step ==
    pc = "gen_palette" =>
        \/ pc' # "gen_palette"
        \/ Len(buckets') = Len(buckets) + 1

\* C10: while gen_palette runs on a non-empty input with n >= 1, every bucket
\* is non-empty, the buckets together hold exactly the input pixels, every
\* loop pass either ends the loop or adds exactly one bucket, and the bucket
\* count (so the number of colours returned) stays between 1 and n.
C10_QuantizerInvariant == [](C10_State) /\ [][C10_Step]_vars

\* The quantizer stopped early: it returned fewer colours than requested
\* after at least one split.
C10_Witness ==
    /\ pc = "dither"
    /\ Len(palette) >= 3
    /\ Len(palette) < palette_size

---------------------------------------------------------------------------
(* Bucket statistics on their own: a bucket of two runs of equal pixels,   *)
(* of at most MaxDim x MaxDim pixels in all (the largest image do_encode   *)
(* accepts, whose pixels all start in gen_palette's first bucket).         *)

StatColors == { <<0, 0, 0>>, <<255, 255, 255>>, <<255, 0, 128>> }

\* Run lengths: a pixel, a 300 x 150 half image, half of the largest image.
StatCounts == { 1, 45000, 8392704, 8392705 }

InitStats ==
    /\ bk \in { <<<<c1, k1>>, <<c2, k2>>>> :
                  c1 \in StatColors, c2 \in StatColors,
                  k1 \in StatCounts, k2 \in StatCounts }
    /\ RunsLen(bk) <= MaxDim * MaxDim
    /\ build \in {"debug", "release"}
    /\ stat = NoStat
    /\ pc = "stats"
    /\ pixels = <<>> /\ buckets = <<>> /\ palette_size = 2
    /\ IdleInputs /\ IdleEncode /\ IdleDecode /\ IdleIndex

\* Bucket::average_color and Bucket::variance applied to bk.  With overflow
\* checks (debug) an accumulator that passes 2^32 - 1 panics; without them
\* (release) it wraps.
Measure ==
    /\ pc = "stats"
    /\ pc' = "stats_done"
    /\ stat' =
        LET sum_over == average_color_overflows(bk)
            var_over == variance_overflows(bk)
        IN  [ done         |-> TRUE,
              sum_overflow |-> sum_over,
              var_overflow |-> var_over,
              outcome      |-> IF build = "debug" /\ (sum_over \/ var_over)
                               THEN "panic" ELSE "ok",
              average      |-> average_color(bk),
              variance     |-> variance(bk) ]
    /\ UNCHANGED <<img, palette_size, key_opt, compress, cpus_enc, cpus_dec, build,
                   pixels, buckets, palette, data, handles, result, output_bytes,
                   encoded, d_bytes, d_palette, d_data, d_handles, d_result,
                   decoded, current_step, bk, ix>>

NextStats == Measure

SpecStats == InitStats /\ [][NextStats]_vars

\* C9: for every bucket of at most 4097 x 4097 pixels the u32 accumulators of
\* average_color and variance never exceed 2^32 - 1 (so neither panics nor
\* wraps and both return the exact truncated statistics).
C9_AccumulatorsFit ==
    stat.done =>
        /\ ~stat.sum_overflow
        /\ ~stat.var_overflow
        /\ stat.outcome = "ok"

\* The half of the claim that does hold: the per-channel sums fit.
C9_ChannelSumsFit == stat.done => ~stat.sum_overflow

---------------------------------------------------------------------------
(* The pipeline: do_encode of a small image, then do_decode of what it     *)
(* returned, on machines with cpus_enc and cpus_dec processors.  Keys are  *)
(* valid keys; the buckets are far too small for a u32 to overflow, so the *)
(* build does not matter here.                                             *)

Black == <<0, 0, 0>>
White == <<255, 255, 255>>
Grey  == <<100, 100, 100>>

\* Images of the given size over the given colours.
ImagesOf(w, h, colours) ==
    { [width |-> w, height |-> h, px |-> p] : p \in [1..(w * h) -> colours] }

Images ==
    ImagesOf(2, 2, {Black, White}) \cup ImagesOf(2, 2, {Grey, White})
        \cup ImagesOf(3, 2, {Black}) \cup ImagesOf(1, 4, {Black})
        \cup { [width |-> 2, height |-> 3,
                px |-> <<Black, White, Grey, White, Black, Grey>>] }

Init ==
    /\ img \in Images
    /\ palette_size \in 2..MaxN
    /\ key_opt \in {0, 7}
    /\ compress \in BOOLEAN
    /\ cpus_enc \in 1..MaxCpus
    /\ cpus_dec \in 1..MaxCpus
    /\ build = "release"
    /\ pixels = <<>>
    /\ buckets = <<>>
    /\ pc = "do_encode"
    /\ IdleEncode /\ IdleDecode /\ IdleStats /\ IdleIndex

Next ==
    \/ CheckDimensions
    \/ GenSplit \/ GenBreak \/ GenReturn
    \/ Dither \/ EncSpawn \/ EncJoin \/ EncPack
    \/ \E i \in 1..MaxCpus : EncWorker(i)
    \/ ReadBack
    \/ DecOpen \/ DecSpawn \/ DecJoin \/ DecImage
    \/ \E i \in 1..MaxCpus : DecWorker(i)

Spec == Init /\ [][Next]_vars

PastEncJoin ==
    pc \in {"enc_pack", "enc_done", "dec_open", "dec_spawn", "dec_join",
            "dec_image", "dec_done", "dec_panic"}
PastEncode ==
    pc \in {"enc_done", "dec_open", "dec_spawn", "dec_join", "dec_image",
            "dec_done", "dec_panic"}
PastDecJoin ==
    pc \in {"dec_image", "dec_done"}
        \/ (pc = "dec_panic" /\ decoded.outcome = "not_enough_data")
Ended == pc \in {"enc_panic", "dec_panic", "dec_done"}

\* The outputs of the first k workers, in spawn order.
RECURSIVE OutputsOf(_, _)
OutputsOf(hs, k) ==
    IF k = 0 THEN <<>> ELSE OutputsOf(hs, k - 1) \o hs[k].out

JoinedCount(hs) == Cardinality({ i \in 1..Len(hs) : hs[i].st = "joined" })

\* What worker i of w is given of input d, and the whole input worker by worker.
ChunkOf(d, w, i) ==
    SubSeq(d, chunk_start(i, div_ceil(Len(d), w)) + 1,
              chunk_end(i, div_ceil(Len(d), w), Len(d)))

RECURSIVE EncodedUpTo(_, _, _, _, _)
EncodedUpTo(d, w, pal, key, k) ==
    IF k = 0 THEN <<>>
    ELSE EncodedUpTo(d, w, pal, key, k - 1)
            \o process_encode(ChunkOf(d, w, k - 1), pal, key)

RECURSIVE DecodedUpTo(_, _, _, _, _)
DecodedUpTo(d, w, pal, key, k) ==
    IF k = 0 THEN <<>>
    ELSE DecodedUpTo(d, w, pal, key, k - 1)
            \o process_decode(ChunkOf(d, w, k - 1), pal, key)

\* C1: with no key and no compression, decoding what do_encode returned ends
\* without fault and gives an image of the original width and height whose
\* pixels are the dithered pixels do_encode indexed.
C1_RoundTrip ==
    (Ended /\ key_opt = 0 /\ ~compress) =>
        /\ pc = "dec_done"
        /\ decoded.outcome = "ok"
        /\ decoded.width = img.width
        /\ decoded.height = img.height
        /\ decoded.px = data

\* C2: in do_encode and in do_decode the reassembled result is, whatever the
\* order in which the workers finish, the workers' outputs in chunk-index
\* order: while joining it is the outputs of the handles joined so far, which
\* are the first ones; once past the join loop every worker has been joined
\* and the result is the one fixed by the input and the worker count.
C2_ChunkOrder ==
    /\ (pc = "enc_join" \/ PastEncJoin) =>
        /\ \A i \in 1..Len(handles) :
              handles[i].st = "joined" <=> i <= JoinedCount(handles)
        /\ result = OutputsOf(handles, JoinedCount(handles))
    /\ PastEncJoin =>
        /\ Len(handles) = cpus_enc
        /\ AllJoined(handles)
        /\ result = EncodedUpTo(data, cpus_enc, palette, key_opt, cpus_enc)
    /\ (pc = "dec_join" \/ PastDecJoin) =>
        /\ \A i \in 1..Len(d_handles) :
              d_handles[i].st = "joined" <=> i <= JoinedCount(d_handles)
        /\ d_result = OutputsOf(d_handles, JoinedCount(d_handles))
    /\ PastDecJoin =>
        /\ Len(d_handles) = cpus_dec
        /\ AllJoined(d_handles)
        /\ d_result = DecodedUpTo(d_data, cpus_dec, d_palette, key_opt, cpus_dec)

\* A later worker of each run has finished before the first one, and the two
\* encode workers produced different outputs.
C2_Witness ==
    /\ pc = "dec_join"
    /\ Len(handles) >= 2
    /\ handles[1].out # handles[2].out
    /\ Len(d_handles) >= 2
    /\ d_handles[1].st = "running"
    /\ d_handles[2].st = "finished"
    /\ d_handles[2].out # <<>>

\* C3: the uncompressed container is 3 dimension bytes, the palette-size
\* byte, 3 bytes per serialized palette entry and one index byte per pixel,
\* and the palette-size byte is the number of serialized entries minus 2.
C3_ContainerLayout ==
    PastEncode =>
        /\ Len(output_bytes) = 3 + 1 + 3 * Len(palette) + img.width * img.height
        /\ SubSeq(output_bytes, 5, 4 + 3 * Len(palette)) = palette_bytes(palette)
        /\ Drop(output_bytes, 4 + 3 * Len(palette)) = result
        /\ output_bytes[4] = Len(palette) - 2

\* The part of C3 that holds: the lengths and the regions.
C3_Regions ==
    PastEncode =>
        /\ Len(output_bytes) = 3 + 1 + 3 * Len(palette) + img.width * img.height
        /\ SubSeq(output_bytes, 5, 4 + 3 * Len(palette)) = palette_bytes(palette)
        /\ Drop(output_bytes, 4 + 3 * Len(palette)) = result

\* C4: with the compression flag do_encode returns the compressed container
\* only when it is strictly shorter and the uncompressed container otherwise,
\* and in both cases do_decode with the flag recovers the container (so it
\* goes on exactly as the uncompressed round trip does).
C4_CompressionFallback ==
    (compress /\ PastEncode) =>
        /\ encoded = IF Len(zstd_encode_all(output_bytes)) < Len(output_bytes)
                     THEN zstd_encode_all(output_bytes) ELSE output_bytes
        /\ pc # "dec_open" =>
              /\ decoded.outcome # "decompression_failed"
              /\ zstd_decode_all(encoded).bytes = output_bytes

\* The part of C4 that holds: what do_encode returns.
C4_StoreWhenNotShorter ==
    (compress /\ PastEncode) =>
        encoded = IF Len(zstd_encode_all(output_bytes)) < Len(output_bytes)
                  THEN zstd_encode_all(output_bytes) ELSE output_bytes

\* C8: with a key, whatever the two worker counts, the workers of do_decode
\* recover from the index region the index stream that was encrypted, so the
\* bytes they reassemble are the dithered pixels.  (Stated for the runs in
\* which do_decode was handed the index region and palette that were written.)
C8_KeyedRoundTrip ==
    (key_opt # 0 /\ PastDecJoin /\ d_data = result /\ d_palette = palette) =>
        d_result = palette_bytes(data)

\* The part of C8 that holds: the same worker count on both sides.
C8_SameWorkerCount ==
    (key_opt # 0 /\ PastDecJoin /\ d_data = result /\ d_palette = palette
        /\ cpus_enc = cpus_dec) =>
        d_result = palette_bytes(data)

---------------------------------------------------------------------------
(* do_decode on its own, on any bytes a file may hold: the prefixes of     *)
(* small containers, on 1..MaxDecCpus processors.                          *)

\* A container header and palette for a w x h image with palette-size byte b.
HeaderOf(w, h, b) ==
    pack_dimensions(w - 2, h - 2) \o <<b>>
        \o palette_bytes(Take(<<Black, White, Grey>>, b + 2))

Containers ==
    { HeaderOf(d[1], d[2], d[3]) \o idx :
        d \in { <<2, 2, 0>>, <<3, 2, 0>>, <<2, 2, 1>> },
        idx \in [1..4 -> {0, 1}] \cup [1..6 -> {0, 1}] }

DecodeInputs == { Take(c, k) : c \in Containers, k \in 0..16 }

InitDecode ==
    /\ encoded \in DecodeInputs
    /\ cpus_dec \in 1..MaxDecCpus
    /\ pc = "dec_open"
    /\ img = NoImage /\ key_opt = 0 /\ compress = FALSE /\ cpus_enc = 1
    /\ build = "release"
    /\ pixels = <<>> /\ buckets = <<>> /\ palette_size = 2
    /\ palette = <<>> /\ data = <<>> /\ handles = <<>> /\ result = <<>>
    /\ output_bytes = <<>> /\ current_step = 0
    /\ IdleDecode /\ IdleStats /\ IdleIndex

NextDecode ==
    \/ DecOpen \/ DecSpawn \/ DecJoin \/ DecImage
    \/ \E i \in 1..MaxDecCpus : DecWorker(i)

SpecDecode == InitDecode /\ [][NextDecode]_vars

\* The input is shorter than its header and the palette it announces.
Truncated(b) == Len(b) < 4 \/ Len(b) < 4 + 3 * (b[4] + 2)

\* C5: on an input shorter than 4 + 3 * (bytes[3] + 2) bytes do_decode ends
\* in the format error ("Not enough data ...") and spawns no worker.
C5_TruncatedIsFormatError ==
    (pc # "dec_open" /\ Truncated(encoded)) =>
        /\ decoded.outcome = "not_enough_data"
        /\ d_handles = <<>>

\* C7: the chunk ranges [i*c, min((i+1)*c, N)) with c = ceil(N / W) are all
\* valid (no slice is refused), and the chunks handed out are, in order, the
\* input: all of it once the W workers are spawned.
C7_ChunksPartition ==
    (pc \in {"dec_spawn", "dec_join", "dec_image", "dec_done", "dec_panic"}
        /\ ~Truncated(encoded)) =>
        /\ decoded.outcome # "slice_index_order"
        /\ \A i \in 1..Len(d_handles) :
              d_handles[i].chunk = ChunkOf(d_data, cpus_dec, i - 1)
        /\ Len(Concat([i \in 1..Len(d_handles) |-> d_handles[i].chunk])) <= Len(d_data)
        /\ pc \in {"dec_join", "dec_image", "dec_done"} =>
              /\ Len(d_handles) = cpus_dec
              /\ Concat([i \in 1..Len(d_handles) |-> d_handles[i].chunk]) = d_data

---------------------------------------------------------------------------
(* process_encode then process_decode on one chunk, with palettes of up to *)
(* 257 different colours.                                                  *)

\* The largest palette size main accepts: (2..=257).contains(&palette_size)
MaxPalette == 257

\* A palette of n different colours.
DistinctPalette(n) == [i \in 1..n |-> <<(i - 1) % 256, (i - 1) \div 256, 0>>]

InitIndex ==
    /\ ix \in UNION { { [pc |-> "chunk", palette |-> DistinctPalette(n),
                         chunk |-> <<DistinctPalette(n)[j]>>,
                         enc |-> <<>>, dec |-> <<>>] : j \in 1..n } :
                     n \in {2, 3, MaxPalette - 1, MaxPalette} }
    /\ pc = "index"
    /\ build = "release"
    /\ pixels = <<>> /\ buckets = <<>> /\ palette_size = 2
    /\ IdleInputs /\ IdleEncode /\ IdleDecode /\ IdleStats

\* process_encode on the chunk, no key.
IndexEncode ==
    /\ ix.pc = "chunk"
    /\ ix' = [ix EXCEPT !.enc = process_encode(ix.chunk, ix.palette, 0),
                        !.pc = "indexed"]
    /\ UNCHANGED <<img, palette_size, key_opt, compress, cpus_enc, cpus_dec, build,
                   pc, pixels, buckets, palette, data, handles, result, output_bytes,
                   encoded, d_bytes, d_palette, d_data, d_handles, d_result,
                   decoded, current_step, bk, stat>>

\* process_decode on the bytes process_encode wrote, same palette, no key.
IndexDecode ==
    /\ ix.pc = "indexed"
    /\ ix' = [ix EXCEPT !.dec = process_decode(ix.enc, ix.palette, 0),
                        !.pc = "expanded"]
    /\ UNCHANGED <<img, palette_size, key_opt, compress, cpus_enc, cpus_dec, build,
                   pc, pixels, buckets, palette, data, handles, result, output_bytes,
                   encoded, d_bytes, d_palette, d_data, d_handles, d_result,
                   decoded, current_step, bk, stat>>

NextIndex == IndexEncode \/ IndexDecode

SpecIndex == InitIndex /\ [][NextIndex]_vars

\* C6: for a palette of 2..257 entries and a pixel whose colour is a palette
\* entry, the byte process_encode writes, looked up by process_decode in the
\* same palette, gives the pixel's colour.
C6_IndexRoundTrip ==
    ix.pc = "expanded" => ix.dec = palette_bytes(ix.chunk)

\* The part of C6 that holds: palettes of at most 256 entries.
C6_UpTo256 ==
    (ix.pc = "expanded" /\ Len(ix.palette) <= 256) => ix.dec = palette_bytes(ix.chunk)

====
